---- MODULE Spec2Model ----
(***************************************************************************)
(* A model of the Telnet session of node-telnet (lib/telnet.js): the       *)
(* incremental parser Client.prototype.parse with its option decoders,     *)
(* and the outbound side Client.prototype.write.                           *)
(*                                                                         *)
(* Buffers are sequences of bytes (0..255).  Indices named i, l, len are   *)
(* 0-based as in the source; At and Slice convert to TLA+ sequences.       *)
(***************************************************************************)
EXTENDS Integers, Sequences, FiniteSets, TLC

(***************************************************************************)
(* Bounds of the model.                                                    *)
(***************************************************************************)
MaxRandLen == 4
MaxTokens == 2
MaxWritten == 2
MaxSent == 2
MaxRaw == 2

(***************************************************************************)
(* COMMANDS (lib/telnet.js 25-42)                                          *)
(***************************************************************************)
SE == 240
SB == 250
WILL == 251
WONT == 252
DO == 253
DONT == 254
IAC == 255

COMMAND_NAMES == 240..255

(***************************************************************************)
(* OPTIONS (lib/telnet.js 50-117)                                          *)
(***************************************************************************)
TRANSMIT_BINARY == 0
ECHO == 1
SUPPRESS_GO_AHEAD == 3
STATUS == 5
TERMINAL_TYPE == 24
NAWS == 31
TERMINAL_SPEED == 32
TOGGLE_FLOW_CONTROL == 33
LINEMODE == 34
X_DISPLAY_LOCATION == 35
AUTHENTICATION == 37
NEW_ENVIRON == 39
CHARSET == 42

OPTION_NAMES == (0..49) \cup {138, 139, 140, 255}

(***************************************************************************)
(* SUB (lib/telnet.js 125-133)                                             *)
(***************************************************************************)
SUB_IS == 0
SUB_SEND == 1
SUB_INFO == 2
SUB_VARIABLE == 0
SUB_VALUE == 1
SUB_USER_VARIABLE == 3

(***************************************************************************)
(* Buffer primitives.                                                      *)
(***************************************************************************)
At(data, i) == data[i + 1]

Slice(data, a, b) == SubSeq(data, a + 1, b)

\* Buffer.concat of a list of buffers
RECURSIVE Concat(_)
Concat(bufs) ==
  IF bufs = <<>> THEN <<>> ELSE Head(bufs) \o Concat(Tail(bufs))

\* index of the first byte b at or after from, Len(data) when there is none:
\* the value of the loop variable when `for (; i < data.length; i++)` ends
RECURSIVE IndexFrom(_, _, _)
IndexFrom(data, from, b) ==
  IF from >= Len(data) THEN Len(data)
  ELSE IF At(data, from) = b THEN from
  ELSE IndexFrom(data, from + 1, b)

\* a little-endian read in place of the big-endian one
readUInt16LE(data, i) == At(data, i + 1) * 256 + At(data, i)

\* data.readUInt16BE(i)
readUInt16BE(data, i) == At(data, i) * 256 + At(data, i + 1)

\* data.toString('ascii', a, b): the high bit of every byte is cleared
ToAscii(data, a, b) == [k \in 1..(b - a) |-> At(data, a + k - 1) % 128]

ToUpperCase(str) ==
  [k \in 1..Len(str) |-> IF str[k] >= 97 /\ str[k] <= 122 THEN str[k] - 32 ELSE str[k]]

\* String.prototype.toLowerCase on a string of 7-bit characters
ToLowerCase(str) ==
  [k \in 1..Len(str) |-> IF str[k] >= 65 /\ str[k] <= 90 THEN str[k] + 32 ELSE str[k]]

\* the value of a property that was never assigned
Undefined == 0 - 1

\* "TERM" and "ansi" as character codes
TERM == <<84, 69, 82, 77>>
ansi == <<97, 110, 115, 105>>

(***************************************************************************)
(* Events.  One record shape for every emitted event: `event` is the event *)
(* name, the other fields are those of the cmd object (or of the event's   *)
(* arguments) and `at` lists the wire offsets the bytes of the event were  *)
(* taken from (for the events of a frame: the offset of the frame's IAC).  *)
(***************************************************************************)
NoEvent ==
  [event |-> "", commandCode |-> Undefined, optionCode |-> Undefined,
   data |-> <<>>, width |-> Undefined, height |-> Undefined,
   name |-> <<>>, value |-> <<>>, type |-> "", at |-> <<>>]

DataEvent(bytes, offs) ==
  [NoEvent EXCEPT !.event = "data", !.data = bytes, !.at = offs]

Named(cmd, ev) == [cmd EXCEPT !.event = ev]

Emit(self, ev) == [self EXCEPT !.events = Append(@, ev)]

ErrorEvent == [NoEvent EXCEPT !.event = "error"]

(***************************************************************************)
(* Option decoders.  self is the session (events, out, columns, rows,      *)
(* terminal, env, tty); cmd is the cmd object built by parse, cmd.data the *)
(* slice from the frame's IAC to the end of the available data.  The       *)
(* result is the returned length (-1: need more data), whether an          *)
(* assertion failed, and the session and cmd object as the decoder left    *)
(* them.  A read past the end of the buffer (RangeError) is caught by      *)
(* parse and gives -1.                                                     *)
(***************************************************************************)
\* a catch clause that reports a RangeError like any other exception
NeedMoreReported(self, cmd) == [len |-> 0, error |-> TRUE, self |-> self, cmd |-> cmd]

\* a decoder that stores before it finds the buffer too short
NeedMoreStoring(self, cmd) ==
  [len |-> 0 - 1, error |-> FALSE, self |-> [self EXCEPT !.terminal = <<>>], cmd |-> cmd]

NeedMore(self, cmd) == [len |-> 0 - 1, error |-> FALSE, self |-> self, cmd |-> cmd]

\* a decoder that stores before it asserts
AssertionErrorAfterStore(self, cmd) ==
  [len |-> 0, error |-> TRUE, self |-> [self EXCEPT !.terminal = <<>>], cmd |-> cmd]

AssertionError(self, cmd) == [len |-> 0, error |-> TRUE, self |-> self, cmd |-> cmd]

\* a decoder that reports one byte consumed whatever it decoded
ReturnedOne(n, self, cmd) == [len |-> 1, error |-> FALSE, self |-> self, cmd |-> cmd]

Returned(n, self, cmd) == [len |-> n, error |-> FALSE, self |-> self, cmd |-> cmd]

\* the body shared by the decoders of the options without arguments
FixedOption(self, cmd, ev) ==
  IF Len(cmd.data) < 3 THEN NeedMore(self, cmd)
  ELSE LET c == [cmd EXCEPT !.data = Slice(cmd.data, 0, 3)]
       IN Returned(3, Emit(self, Named(c, ev)), c)

echo(self, cmd) == FixedOption(self, cmd, "echo")

status(self, cmd) == FixedOption(self, cmd, "status")

linemode(self, cmd) == FixedOption(self, cmd, "linemode")

transmit_binary(self, cmd) == FixedOption(self, cmd, "transmit binary")

authentication(self, cmd) == FixedOption(self, cmd, "authentication")

terminal_speed(self, cmd) == FixedOption(self, cmd, "terminal speed")

\* defined by the code, but parse looks a decoder up by the name of the
\* option, and the table names option 33 toggle_flow_control
remote_flow_control(self, cmd) == FixedOption(self, cmd, "remote flow control")

x_display_location(self, cmd) == FixedOption(self, cmd, "x display location")

suppress_go_ahead(self, cmd) == FixedOption(self, cmd, "suppress go ahead")

naws(self, cmd) ==
  LET data == cmd.data IN
  IF cmd.commandCode # SB THEN
    IF Len(data) < 3 THEN NeedMore(self, cmd)
    ELSE LET c == [cmd EXCEPT !.data = Slice(data, 0, 3)]
         IN Returned(3, Emit(Emit(self, Named(c, "window size")), Named(c, "naws")), c)
  ELSE IF Len(data) < 9 THEN NeedMore(self, cmd)
  ELSE
    LET iac1 == At(data, 0)
        sb == At(data, 1)
        nawsOpt == At(data, 2)
        width == readUInt16BE(data, 3)
        height == readUInt16BE(data, 5)
        iac2 == At(data, 7)
        se == At(data, 8)
        i == 9
        c == [cmd EXCEPT !.width = width, !.height = height, !.data = Slice(data, 0, i)]
        s1 == IF self.tty
              THEN Emit([self EXCEPT !.columns = width, !.rows = height],
                        [NoEvent EXCEPT !.event = "resize", !.at = cmd.at])
              ELSE self
        s2 == Emit(Emit(s1, Named(c, "window size")), Named(c, "naws"))
        s3 == Emit(s2, [NoEvent EXCEPT !.event = "size", !.width = width, !.height = height,
                                   !.at = cmd.at])
    IN IF ~(iac1 = IAC /\ sb = SB /\ nawsOpt = NAWS /\ iac2 = IAC /\ se = SE)
       THEN AssertionError(self, cmd)
       ELSE Returned(i, s3, c)

VariableTypeSwapped(variable) ==
  IF variable = SUB_VARIABLE THEN "user" ELSE "system"

\* cmd.type of an environment variable
VariableType(variable) ==
  IF variable = SUB_VARIABLE THEN "system" ELSE "user"

ValueAsserted(name, value) == Len(value) > 0

\* assert(name.length > 0); assert(value.length > 0)
NameAndValueAsserted(name, value) == Len(name) > 0 /\ Len(value) > 0

new_environ(self, cmd) ==
  LET data == cmd.data IN
  IF cmd.commandCode # SB THEN
    IF Len(data) < 3 THEN NeedMore(self, cmd)
    ELSE LET c == [cmd EXCEPT !.data = Slice(data, 0, 3)]
         IN Returned(3, Emit(Emit(self, Named(c, "environment variables")),
                             Named(c, "new environ")), c)
  ELSE IF Len(data) < 10 THEN NeedMore(self, cmd)
  ELSE
    LET iac1 == At(data, 0)
        sb == At(data, 1)
        newenv == At(data, 2)
        info == At(data, 3)
        variable == At(data, 4)
        \* first loop: up to the VALUE byte
        k1 == IndexFrom(data, 5, SUB_VALUE)
        nameFound == k1 < Len(data)
        name == IF nameFound THEN ToAscii(data, 5, k1) ELSE <<>>
        i1 == IF nameFound THEN k1 + 1 ELSE Len(data)
        \* second loop: up to the next IAC
        k2 == IndexFrom(data, i1, IAC)
        value == IF k2 < Len(data) THEN ToAscii(data, i1, k2) ELSE <<>>
    IN IF k2 + 1 >= Len(data) THEN NeedMore(self, cmd)  \* readUInt8 out of range
       ELSE
         LET iac2 == At(data, k2)
             se == At(data, k2 + 1)
             i == k2 + 2
             isTerm == name = TERM
             val == IF isTerm THEN ToLowerCase(value) ELSE value
             type == VariableType(variable)
             c == [cmd EXCEPT !.name = name, !.value = val, !.type = type,
                              !.data = Slice(data, 0, i)]
             s1 == IF isTerm
                   THEN Emit([self EXCEPT !.terminal = val],
                             [NoEvent EXCEPT !.event = "term", !.name = val, !.at = cmd.at])
                   ELSE self
             s2 == [s1 EXCEPT !.env = [n \in DOMAIN @ \cup {name} |->
                                         IF n = name THEN val ELSE @[n]]]
             s3 == Emit(Emit(s2, Named(c, "environment variables")), Named(c, "new environ"))
             s4 == Emit(s3, [NoEvent EXCEPT !.event = "env", !.name = name, !.value = val,
                                            !.type = type, !.at = cmd.at])
         IN IF ~(/\ iac1 = IAC /\ sb = SB /\ newenv = NEW_ENVIRON
                 /\ info = SUB_INFO
                 /\ variable \in {SUB_VARIABLE, SUB_USER_VARIABLE}
                 /\ NameAndValueAsserted(name, value)
                 /\ iac2 = IAC /\ se = SE)
            THEN AssertionError(self, cmd)
            ELSE Returned(i, s4, c)

TerminalTypeSendIs == <<IAC, SB, TERMINAL_TYPE, SUB_IS, IAC, SE>>

\* the solicitation written for IAC WILL TERMINAL_TYPE
TerminalTypeSend == <<IAC, SB, TERMINAL_TYPE, SUB_SEND, IAC, SE>>

terminal_type(self, cmd) ==
  LET data == cmd.data IN
  IF cmd.commandCode # SB THEN
    IF Len(data) < 3 THEN NeedMore(self, cmd)
    ELSE LET c == [cmd EXCEPT !.data = Slice(data, 0, 3)]
             s1 == Emit(self, Named(c, "terminal type"))
             s2 == IF cmd.commandCode = WILL
                   THEN [s1 EXCEPT !.out = Append(@, [op |-> "write", bytes |-> TerminalTypeSend])]
                   ELSE s1
         IN Returned(3, s2, c)
  ELSE IF Len(data) < 7 THEN NeedMore(self, cmd)
  ELSE
    LET iac1 == At(data, 0)
        sb == At(data, 1)
        termtype == At(data, 2)
        is == At(data, 3)
        k == IndexFrom(data, 4, IAC)
        name == IF k < Len(data) THEN ToAscii(data, 4, k) ELSE <<>>
    IN IF k + 1 >= Len(data) THEN NeedMore(self, cmd)  \* readUInt8 out of range
       ELSE
         LET iac2 == At(data, k)
             se == At(data, k + 1)
             i == k + 2
             lname == ToLowerCase(name)
             c == [cmd EXCEPT !.name = lname, !.data = Slice(data, 0, i)]
             s1 == [self EXCEPT !.terminal = lname]
             s2 == Emit(s1, Named(c, "terminal type"))
             s3 == Emit(s2, [NoEvent EXCEPT !.event = "term", !.name = lname, !.at = cmd.at])
         IN IF ~(/\ iac1 = IAC /\ sb = SB /\ termtype = TERMINAL_TYPE
                 /\ is = SUB_IS /\ Len(name) > 0
                 /\ iac2 = IAC /\ se = SE)
            THEN AssertionError(self, cmd)
            ELSE Returned(i, s3, c)

(***************************************************************************)
(* The senders Client.prototype.open installs (lib/telnet.js 218-237)      *)
(***************************************************************************)
\* keys of OPTIONS in lower case: the options the model's application sends
SenderNames ==
  {"transmit_binary", "echo", "suppress_go_ahead", "terminal_type", "naws",
   "new_environ"}

\* OPTIONS[optionName]
OPTIONS(optionName) ==
  CASE optionName = "transmit_binary" -> TRANSMIT_BINARY
    [] optionName = "echo" -> ECHO
    [] optionName = "suppress_go_ahead" -> SUPPRESS_GO_AHEAD
    [] optionName = "terminal_type" -> TERMINAL_TYPE
    [] optionName = "naws" -> NAWS
    [] optionName = "new_environ" -> NEW_ENVIRON

\* the names open adds for compatibility
AliasNames == {"window_size", "environment_variables"}

AliasOfSwapped(name) ==
  CASE name = "window_size" -> "new_environ"
    [] name = "environment_variables" -> "naws"

\* the sender each of them is assigned
AliasOf(name) ==
  CASE name = "window_size" -> "naws"
    [] name = "environment_variables" -> "new_environ"

\* the option code the sender installed under a name writes
SenderOption(name) ==
  IF name \in AliasNames THEN OPTIONS(AliasOf(name)) ELSE OPTIONS(name)

SenderBufferSwapped(commandCode, optionCode) == <<IAC, optionCode, commandCode>>

\* the buffer a sender writes
SenderBuffer(commandCode, optionCode) == <<IAC, commandCode, optionCode>>

(***************************************************************************)
(* Client.prototype.parse                                                  *)
(***************************************************************************)
\* this._last when absent
NoLast == [data |-> <<>>, i |-> Undefined, l |-> Undefined]

\* the options for which Client.prototype has a method named as the option
HasDecoder(optionCode) ==
  optionCode \in {ECHO, STATUS, LINEMODE, TRANSMIT_BINARY, AUTHENTICATION,
                  TERMINAL_SPEED, X_DISPLAY_LOCATION, SUPPRESS_GO_AHEAD,
                  NAWS, NEW_ENVIRON, TERMINAL_TYPE}

\* this[cmd.optionName](cmd)
Decoder(self, cmd) ==
  CASE cmd.optionCode = ECHO -> echo(self, cmd)
    [] cmd.optionCode = STATUS -> status(self, cmd)
    [] cmd.optionCode = LINEMODE -> linemode(self, cmd)
    [] cmd.optionCode = TRANSMIT_BINARY -> transmit_binary(self, cmd)
    [] cmd.optionCode = AUTHENTICATION -> authentication(self, cmd)
    [] cmd.optionCode = TERMINAL_SPEED -> terminal_speed(self, cmd)
    [] cmd.optionCode = X_DISPLAY_LOCATION -> x_display_location(self, cmd)
    [] cmd.optionCode = SUPPRESS_GO_AHEAD -> suppress_go_ahead(self, cmd)
    [] cmd.optionCode = NAWS -> naws(self, cmd)
    [] cmd.optionCode = NEW_ENVIRON -> new_environ(self, cmd)
    [] cmd.optionCode = TERMINAL_TYPE -> terminal_type(self, cmd)

\* `while (cdata[len] && cdata[len] !== COMMANDS.SE) len++`: stops at the
\* end of the buffer, at a zero byte or at SE
RECURSIVE ScanSE(_, _)
ScanSE(cdata, len) ==
  IF len < Len(cdata) /\ At(cdata, len) # 0 /\ At(cdata, len) # SE
  THEN ScanSE(cdata, len + 1)
  ELSE len

\* the branch of parse for an option without a decoder
UnknownOption(self, cmd) ==
  LET cdata == cmd.data
      n == ScanSE(cdata, 0)
      len == IF cmd.commandCode = SB
             THEN IF n >= Len(cdata) \/ At(cdata, n) = 0 THEN 3 ELSE n + 1
             ELSE 3
  IN Returned(len, self, [cmd EXCEPT !.data = Slice(cdata, 0, len)])

\* the condition of the `if` at the head of the loop body
FrameHead(data, i) ==
  /\ Len(data) - 1 - i >= 2
  /\ At(data, i) = IAC
  /\ At(data, i + 1) \in COMMAND_NAMES
  /\ At(data, i + 2) \in OPTION_NAMES

\* the wire offsets of data.slice(a, b), data[0] being at offset base
Offsets(base, a, b) == [k \in 1..(b - a) |-> base + a + k - 1]

\* this._last of a decoder that asks for more data: the whole buffer and
\* the cursors as they stand
SuspendedResidueSliced(data, i, l) == [data |-> Slice(data, i, Len(data)), i |-> i, l |-> l]

SuspendedResidue(data, i, l) == [data |-> data, i |-> i, l |-> l]

\* this._last of an IAC with fewer than two bytes after it: the buffer from
\* the IAC on, both cursors reset
StrayResidueWhole(data, i) == [data |-> data, i |-> i, l |-> 0]

StrayResidue(data, i) == [data |-> Slice(data, i, Len(data)), i |-> 0, l |-> 0]

\* the `for` loop of parse and the code after it.  st holds the locals
\* (data, i, l, needsPush, bufs), the session st.self, and st.base, the wire
\* offset of data[0].  The result is the session and this._last on return.
RECURSIVE ParseLoop(_)
ParseLoop(st) ==
  LET data == st.data
      i == st.i
      l == st.l
  IN
  IF i >= Len(data) THEN
    [self |-> IF st.bufs # <<>>
              THEN Emit(st.self, DataEvent(Concat([k \in 1..Len(st.bufs) |-> st.bufs[k].bytes]),
                                           Concat([k \in 1..Len(st.bufs) |-> st.bufs[k].at])))
              ELSE st.self,
     last |-> NoLast]
  ELSE IF FrameHead(data, i) THEN
    LET cdata == Slice(data, i, Len(data))
        cmd == [NoEvent EXCEPT !.event = "command",
                               !.commandCode = At(cdata, 1),
                               !.optionCode = At(cdata, 2),
                               !.data = cdata,
                               !.at = <<st.base + i>>]
        r == IF HasDecoder(cmd.optionCode)
             THEN Decoder(st.self, cmd)
             ELSE UnknownOption(st.self, cmd)
    IN IF r.error THEN
         [self |-> Emit(r.self, [ErrorEvent EXCEPT !.at = <<st.base + i>>]),
          last |-> NoLast]
       ELSE IF r.len = 0 - 1 THEN
         [self |-> r.self, last |-> SuspendedResidue(data, i, l)]
       ELSE
         ParseLoop([st EXCEPT !.self = Emit(r.self, r.cmd),
                              !.needsPush = TRUE,
                              !.l = i + r.len,
                              !.i = i + r.len])
  ELSE IF At(data, i) = IAC /\ Len(data) - 1 - i < 2 THEN
    [self |-> IF i > l
              THEN Emit(st.self, DataEvent(Slice(data, l, i), Offsets(st.base, l, i)))
              ELSE st.self,
     last |-> StrayResidue(data, i)]
  ELSE IF st.needsPush \/ i = Len(data) - 1 THEN
    ParseLoop([st EXCEPT !.bufs = Append(@, [bytes |-> Slice(data, l, i + 1),
                                             at |-> Offsets(st.base, l, i + 1)]),
                         !.needsPush = FALSE,
                         !.i = i + 1])
  ELSE
    ParseLoop([st EXCEPT !.i = i + 1])

\* parse(chunk) on a session whose residue is last, the chunk starting at
\* wire offset at
parse(self, last, chunk, at) ==
  LET resumed == last # NoLast
      data == IF resumed THEN last.data \o chunk ELSE chunk
  IN ParseLoop([data |-> data,
                base |-> IF resumed THEN at - Len(last.data) ELSE at,
                i |-> IF resumed THEN last.i ELSE 0,
                l |-> IF resumed THEN last.l ELSE 0,
                needsPush |-> FALSE,
                bufs |-> <<>>,
                self |-> self])

(***************************************************************************)
(* Client.prototype.write                                                  *)
(***************************************************************************)
\* b.toString('utf8') for a buffer in which every byte above 0x7F is one
\* that never occurs in well-formed UTF-8 (0xFF): each such byte decodes to
\* U+FFFD
Utf8Decode(b) == [k \in 1..Len(b) |-> IF b[k] < 128 THEN b[k] ELSE 65533]

\* the UTF-8 encoding of one code point of the basic plane
Utf8EncodeChar(cp) ==
  IF cp < 128 THEN <<cp>>
  ELSE IF cp < 2048 THEN <<192 + (cp \div 64), 128 + (cp % 64)>>
  ELSE <<224 + (cp \div 4096), 128 + ((cp \div 64) % 64), 128 + (cp % 64)>>

\* the bytes output.write(str) sends for a string
Utf8Encode(str) == Concat([k \in 1..Len(str) |-> Utf8EncodeChar(str[k])])

\* str.replace(/\r?\n/g, '\r\n')
RECURSIVE ReplaceLF(_)
ReplaceLF(str) ==
  IF str = <<>> THEN <<>>
  ELSE IF Len(str) >= 2 /\ str[1] = 13 /\ str[2] = 10
       THEN <<13, 10>> \o ReplaceLF(SubSeq(str, 3, Len(str)))
  ELSE IF str[1] = 10 THEN <<13, 10>> \o ReplaceLF(Tail(str))
  ELSE <<str[1]>> \o ReplaceLF(Tail(str))

\* the bytes Client.prototype.write hands to the transport for buffer b
write(b, optConvertLF) ==
  IF optConvertLF THEN Utf8Encode(ReplaceLF(Utf8Decode(b))) ELSE b

(***************************************************************************)
(* Inputs of the model.                                                    *)
(***************************************************************************)
\* all sequences over S of length 1..n
RECURSIVE SeqsUpTo(_, _)
SeqsUpTo(S, n) ==
  IF n = 0 THEN {}
  ELSE LET shorter == SeqsUpTo(S, n - 1)
       IN {<<x>> : x \in S} \cup shorter \cup {t \o <<x>> : t \in shorter, x \in S}

\* bytes of the unstructured inbound streams
RandBytes == {IAC, SB, SE, WILL, ECHO, 65}

\* user-data spans, the IAC escape, negotiation frames and subnegotiation
\* frames, well formed and malformed
UserTokens == {<<65>>, <<66, 67>>}

EscapeToken == <<IAC, IAC>>

NawsFrame == <<IAC, SB, NAWS, 0, 80, 0, 24, IAC, SE>>

BadNawsFrame == <<IAC, SB, NAWS, 0, 80, 0, 24, 0, 0>>

TerminalTypeFrame == <<IAC, SB, TERMINAL_TYPE, SUB_IS, 88, 84, IAC, SE>>

FrameTokens ==
  {<<IAC, WILL, ECHO>>,
   <<IAC, WILL, TERMINAL_TYPE>>,
   <<IAC, DO, NAWS>>,
   <<IAC, WILL, 42>>,
   NawsFrame,
   <<IAC, SB, NAWS, 1, 2, 3, 4, IAC, SE>>,
   TerminalTypeFrame,
   <<IAC, SB, NEW_ENVIRON, SUB_INFO, SUB_VARIABLE, 84, 69, 82, 77, SUB_VALUE, 88, IAC, SE>>,
   <<IAC, SB, NEW_ENVIRON, SUB_INFO, SUB_USER_VARIABLE, 65, SUB_VALUE, 66, IAC, SE>>,
   <<IAC, SB, 42, 1, IAC, SE>>}

MalformedTokens ==
  {BadNawsFrame,
   <<IAC, SB, TERMINAL_TYPE, SUB_IS, IAC, SE>>,
   <<IAC, SB, TERMINAL_TYPE, SUB_SEND, 88, IAC, SE>>,
   <<IAC, SB, NEW_ENVIRON, SUB_INFO, SUB_VARIABLE, SUB_VALUE, 66, IAC, SE>>,
   <<IAC, SB, NEW_ENVIRON, SUB_INFO, SUB_VARIABLE, 65, SUB_VALUE, IAC, SE>>}

\* the verbs of option negotiation
Verbs == {DO, DONT, WILL, WONT}

\* the negotiations of the two options whose decoders look at the verb
NegotiationTokens == {<<IAC, v, o>> : v \in Verbs, o \in {NAWS, TERMINAL_TYPE}}

\* a negotiation of each option that takes no argument; 33 is the option
\* the table calls TOGGLE_FLOW_CONTROL
FixedTokens ==
  {<<IAC, DO, o>> :
     o \in {TRANSMIT_BINARY, ECHO, SUPPRESS_GO_AHEAD, STATUS, TERMINAL_SPEED,
            TOGGLE_FLOW_CONTROL, LINEMODE, X_DISPLAY_LOCATION, AUTHENTICATION}}

\* the terminal name "XTERM"
XtermFrame == <<IAC, SB, TERMINAL_TYPE, SUB_IS, 88, 84, 69, 82, 77, IAC, SE>>

\* frames of an option without a decoder: a subnegotiation whose payload is
\* a zero byte, one that is not closed, and an option byte outside the table
UnknownTokens ==
  {<<IAC, SB, CHARSET, 0, IAC, SE>>, <<IAC, SB, CHARSET>>, <<IAC, WILL, 65>>}

Tokens ==
  UserTokens \cup {EscapeToken} \cup FrameTokens \cup MalformedTokens
    \cup NegotiationTokens \cup FixedTokens \cup {XtermFrame} \cup UnknownTokens

\* the tokens that are combined freely with each other
CoreTokens ==
  UserTokens \cup
  {EscapeToken, <<IAC, WILL, ECHO>>, <<IAC, WILL, 42>>, NawsFrame,
   TerminalTypeFrame, BadNawsFrame}

\* what precedes and follows a token that is sent in a context
Contexts == {<<>>, <<65>>, <<IAC, WILL, ECHO>>}

\* the scenarios S4 and S5 of the specification
ScenarioS4 == <<72, 73, IAC, WILL, ECHO, 32, 87, 79, 82, 76, 68>>

ScenarioS5 == <<65, IAC, WILL, 42, 66>>

Streams ==
  SeqsUpTo(RandBytes, MaxRandLen)
    \cup {Concat(ts) : ts \in SeqsUpTo(CoreTokens, MaxTokens)}
    \cup {p \o t \o q : p \in Contexts, t \in Tokens, q \in Contexts}
    \cup {ScenarioS4, ScenarioS5}

\* buffers the application writes
WriteBytes == {10, 13, 65, IAC}

WriteBuffers == SeqsUpTo(WriteBytes, MaxWritten)

(***************************************************************************)
(* The session.                                                            *)
(***************************************************************************)
VARIABLES
  wire,       \* the bytes the peer sends, in order
  pos,        \* how many of them the transport has delivered
  last,       \* this._last
  events,     \* the events emitted so far, in order
  out,        \* the calls made on the transport so far, in order
  columns, rows, terminal, env,
  tty, convertLF,  \* this.options
  isTTY, isRaw,    \* <<v>> when assigned the value v, <<>> when never assigned
  nwritten,   \* how many bytes the application has passed to write
  nsent,      \* how many times the application has called a sender
  nraw        \* how many times the application has called setRawMode

vars == <<wire, pos, last, events, out, columns, rows, terminal, env,
          tty, convertLF, isTTY, isRaw, nwritten, nsent, nraw>>

TransportWrite(bytes) == [op |-> "write", bytes |-> bytes]

TransportEnd == [op |-> "end", bytes |-> <<>>]

TransportDestroy == [op |-> "destroy", bytes |-> <<>>]

\* the session as the decoders see it
Self ==
  [events |-> events, out |-> out, columns |-> columns, rows |-> rows,
   terminal |-> terminal, env |-> env, tty |-> tty]

\* the session the constructor builds (with the writes of open) for the
\* given value of options.tty
Constructed(optTty) ==
  [events |-> <<>>,
   out |-> IF optTty
           THEN <<TransportWrite(<<IAC, DO, TRANSMIT_BINARY>>),
                  TransportWrite(<<IAC, DO, TERMINAL_TYPE>>),
                  TransportWrite(<<IAC, DO, NAWS>>),
                  TransportWrite(<<IAC, DO, NEW_ENVIRON>>)>>
           ELSE <<>>,
   columns |-> IF optTty THEN 80 ELSE Undefined,
   rows |-> IF optTty THEN 24 ELSE Undefined,
   terminal |-> ansi,
   env |-> [n \in {} |-> <<>>],
   tty |-> optTty]

\* this.isTTY and this.isRaw after the constructor
ConstructedIsTTY(optTty) == IF optTty THEN <<TRUE>> ELSE <<>>

ConstructedIsRawTrue(optTty) == IF optTty THEN <<TRUE>> ELSE <<>>

ConstructedIsRaw(optTty) == IF optTty THEN <<FALSE>> ELSE <<>>

\* the state after `new Client(options)`
Client(optTty, optConvertLF) ==
  /\ last = NoLast
  /\ events = Constructed(optTty).events
  /\ out = Constructed(optTty).out
  /\ columns = Constructed(optTty).columns
  /\ rows = Constructed(optTty).rows
  /\ terminal = Constructed(optTty).terminal
  /\ env = Constructed(optTty).env
  /\ tty = optTty
  /\ convertLF = optConvertLF
  /\ isTTY = ConstructedIsTTY(optTty)
  /\ isRaw = ConstructedIsRaw(optTty)

\* a session on which the peer sends one of the streams S
InitWith(S, optsConvertLF) ==
  /\ wire \in S
  /\ pos = 0
  /\ nwritten = 0
  /\ nsent = 0
  /\ nraw = 0
  /\ \E optTty \in BOOLEAN, optConvertLF \in optsConvertLF : Client(optTty, optConvertLF)

\* whether the application has closed the transport
Closed == \E k \in 1..Len(out) : out[k].op \in {"end", "destroy"}

\* whether the application has destroyed the transport: it delivers no more
\* data (after end() the peer may still send)
Destroyed == \E k \in 1..Len(out) : out[k].op = "destroy"

\* whether the transport has signalled the end of the inbound stream
InputEnded == \E k \in 1..Len(events) : events[k].event = "end"

\* whether the transport has signalled that it is closed
InputClosed == \E k \in 1..Len(events) : events[k].event = "close"

\* the getter `writable`: this.output.writable, which the transport clears
\* when the application ends or destroys it and when it is closed
writable == ~Closed /\ ~InputClosed

\* input.on('data'): the transport delivers the next n bytes of the wire as
\* one chunk and parse runs on it to completion
Data(n) ==
  /\ ~Destroyed
  /\ ~InputEnded /\ ~InputClosed
  /\ n \in 1..(Len(wire) - pos)
  /\ LET r == parse(Self, last, SubSeq(wire, pos + 1, pos + n), pos)
     IN /\ last' = r.last
        /\ events' = r.self.events
        /\ out' = r.self.out
        /\ columns' = r.self.columns
        /\ rows' = r.self.rows
        /\ terminal' = r.self.terminal
        /\ env' = r.self.env
  /\ pos' = pos + n
  /\ UNCHANGED <<wire, tty, convertLF, isTTY, isRaw, nwritten, nsent, nraw>>

\* the writes of an application whose 'data' listener passes every payload
\* to client.write, for the events evs
Echoed(evs, optConvertLF) ==
  LET ds == SelectSeq(evs, LAMBDA e : e.event = "data")
  IN [k \in 1..Len(ds) |-> TransportWrite(write(ds[k].data, optConvertLF))]

\* input.on('data') on a session whose application echoes: parse emits the
\* 'data' events at the end of its pass, and the listener writes each
\* payload back as it is emitted
EchoData(n) ==
  /\ ~Destroyed
  /\ ~InputEnded /\ ~InputClosed
  /\ n \in 1..(Len(wire) - pos)
  /\ LET r == parse(Self, last, SubSeq(wire, pos + 1, pos + n), pos)
     IN /\ last' = r.last
        /\ events' = r.self.events
        /\ out' = r.self.out
                    \o Echoed(SubSeq(r.self.events, Len(events) + 1, Len(r.self.events)),
                              convertLF)
        /\ columns' = r.self.columns
        /\ rows' = r.self.rows
        /\ terminal' = r.self.terminal
        /\ env' = r.self.env
  /\ pos' = pos + n
  /\ UNCHANGED <<wire, tty, convertLF, isTTY, isRaw, nwritten, nsent, nraw>>

\* the application calls client.write(b)
Write(b) ==
  /\ ~Closed
  /\ nwritten + Len(b) <= MaxWritten
  /\ nwritten' = nwritten + Len(b)
  /\ out' = Append(out, TransportWrite(write(b, convertLF)))
  /\ UNCHANGED <<wire, pos, last, events, columns, rows, terminal, env, tty,
                 convertLF, isTTY, isRaw, nsent, nraw>>

\* the application calls client.end()
End ==
  /\ ~Closed
  /\ out' = Append(out, TransportEnd)
  /\ UNCHANGED <<wire, pos, last, events, columns, rows, terminal, env, tty,
                 convertLF, isTTY, isRaw, nwritten, nsent, nraw>>

\* the application calls client.destroy()
Destroy ==
  /\ ~Closed
  /\ out' = Append(out, TransportDestroy)
  /\ UNCHANGED <<wire, pos, last, events, columns, rows, terminal, env, tty,
                 convertLF, isTTY, isRaw, nwritten, nsent, nraw>>

\* the application calls client.<verb>.<name>(), the sender open installed
\* under that name
Send(commandCode, name) ==
  /\ ~Closed
  /\ nsent < MaxSent
  /\ nsent' = nsent + 1
  /\ out' = Append(out, TransportWrite(SenderBuffer(commandCode, SenderOption(name))))
  /\ UNCHANGED <<wire, pos, last, events, columns, rows, terminal, env, tty,
                 convertLF, isTTY, isRaw, nwritten, nraw>>

RawModeSendersReversed(mode) ==
  IF mode
  THEN <<SenderBuffer(WILL, OPTIONS("echo")),
         SenderBuffer(WILL, OPTIONS("suppress_go_ahead")),
         SenderBuffer(DO, OPTIONS("suppress_go_ahead"))>>
  ELSE <<SenderBuffer(WONT, OPTIONS("echo")),
         SenderBuffer(WONT, OPTIONS("suppress_go_ahead")),
         SenderBuffer(DONT, OPTIONS("suppress_go_ahead"))>>

\* the three senders _setRawMode calls for a mode, in the order of the calls
RawModeSenders(mode) ==
  IF mode
  THEN <<SenderBuffer(DO, OPTIONS("suppress_go_ahead")),
         SenderBuffer(WILL, OPTIONS("suppress_go_ahead")),
         SenderBuffer(WILL, OPTIONS("echo"))>>
  ELSE <<SenderBuffer(DONT, OPTIONS("suppress_go_ahead")),
         SenderBuffer(WONT, OPTIONS("suppress_go_ahead")),
         SenderBuffer(WONT, OPTIONS("echo"))>>

\* the application calls client.setRawMode(mode); the constructor installs
\* setRawMode only on a session created with the tty option
SetRawMode(mode) ==
  /\ tty
  /\ nraw < MaxRaw
  /\ nraw' = nraw + 1
  /\ isRaw' = <<mode>>
  /\ out' = IF ~writable THEN out
            ELSE out \o [k \in 1..3 |-> TransportWrite(RawModeSenders(mode)[k])]
  /\ UNCHANGED <<wire, pos, last, events, columns, rows, terminal, env, tty,
                 convertLF, isTTY, nwritten, nsent>>

OnEndFlushed(self) ==
  Emit(IF last # NoLast THEN Emit(self, DataEvent(last.data, <<>>)) ELSE self,
       [NoEvent EXCEPT !.event = "end"])

\* input.on('end')
OnEnd(self) == Emit(self, [NoEvent EXCEPT !.event = "end"])

\* input.on('close')
OnClose(self) == Emit(self, [NoEvent EXCEPT !.event = "close"])

\* the transport signals the end of the inbound stream
InputEnd ==
  /\ ~InputEnded /\ ~InputClosed
  /\ events' = OnEnd(Self).events
  /\ UNCHANGED <<wire, pos, last, out, columns, rows, terminal, env, tty,
                 convertLF, isTTY, isRaw, nwritten, nsent, nraw>>

\* the transport signals that it is closed
InputClose ==
  /\ ~InputClosed
  /\ events' = OnClose(Self).events
  /\ UNCHANGED <<wire, pos, last, out, columns, rows, terminal, env, tty,
                 convertLF, isTTY, isRaw, nwritten, nsent, nraw>>

(***************************************************************************)
(* Spec: the inbound side.  The peer sends any of the streams, cut into    *)
(* chunks in every possible way; the application only listens.             *)
(***************************************************************************)
Init == InitWith(Streams, {TRUE})

Next == \E n \in 1..(Len(wire) - pos) : Data(n)

Spec == Init /\ [][Next]_vars

(***************************************************************************)
(* SpecApp: the whole session.  The peer sends one token or one scenario   *)
(* and the application writes to and closes the session at any moment.     *)
(***************************************************************************)
AppStreams ==
  {<<65>>, <<IAC, WILL, TERMINAL_TYPE>>, NawsFrame, BadNawsFrame, ScenarioS5}

InitApp == InitWith(AppStreams, BOOLEAN)

NextApp ==
  \/ \E n \in 1..(Len(wire) - pos) : Data(n)
  \/ \E b \in WriteBuffers : Write(b)
  \/ End
  \/ Destroy

SpecApp == InitApp /\ [][NextApp]_vars

(***************************************************************************)
(* SpecSend: negotiation by the application.  The peer sends one token and *)
(* the application calls the senders at any moment.                        *)
(***************************************************************************)
SendStreams == {<<65>>, <<IAC, WILL, TERMINAL_TYPE>>, NawsFrame}

InitSend == InitWith(SendStreams, {TRUE})

NextSend ==
  \/ \E n \in 1..(Len(wire) - pos) : Data(n)
  \/ \E commandCode \in Verbs, name \in SenderNames \cup AliasNames :
       Send(commandCode, name)

SpecSend == InitSend /\ [][NextSend]_vars

(***************************************************************************)
(* SpecTty: terminal mode and the end of the transport.  The peer sends    *)
(* one token, whole or cut short, and the transport may end and close; the *)
(* application switches the raw mode and closes the session at any moment. *)
(***************************************************************************)
TtyStreams ==
  {<<65>>, <<IAC, WILL, ECHO>>, <<65, IAC>>, <<IAC, SB, NAWS, 0, 80>>, NawsFrame}

InitTty == InitWith(TtyStreams, {TRUE})

NextTty ==
  \/ \E n \in 1..(Len(wire) - pos) : Data(n)
  \/ \E mode \in BOOLEAN : SetRawMode(mode)
  \/ End
  \/ Destroy
  \/ InputEnd
  \/ InputClose

SpecTty == InitTty /\ [][NextTty]_vars

(***************************************************************************)
(* SpecEcho: the echo server.  The peer sends user bytes, among them a     *)
(* byte that is not UTF-8, or the scenario S5, and the application writes  *)
(* every 'data' payload back.                                              *)
(***************************************************************************)
EchoBytes == {13, 65, 254}

EchoStreams == SeqsUpTo(EchoBytes, MaxRandLen) \cup {ScenarioS5}

InitEcho == InitWith(EchoStreams, BOOLEAN)

NextEcho == \E n \in 1..(Len(wire) - pos) : EchoData(n)

SpecEcho == InitEcho /\ [][NextEcho]_vars

(***************************************************************************)
(* Observations on the event stream, used by the properties below.         *)
(***************************************************************************)
IsData(e) == e.event = "data"

IsError(e) == e.event = "error"

\* the events of frames: the option events and the generic 'command' event
IsFrameEvent(e) == ~IsData(e) /\ ~IsError(e)

\* the user bytes delivered to the application, in order
DataBytes(evs) ==
  LET ds == SelectSeq(evs, IsData) IN Concat([k \in 1..Len(ds) |-> ds[k].data])

\* the wire offsets the delivered user bytes were taken from, in order
DataOffsets(evs) ==
  LET ds == SelectSeq(evs, IsData) IN Concat([k \in 1..Len(ds) |-> ds[k].at])

\* an event without the record of where on the wire it came from
Payload(e) == [e EXCEPT !.at = <<>>]

FrameEvents(evs) ==
  LET fs == SelectSeq(evs, IsFrameEvent) IN [k \in 1..Len(fs) |-> Payload(fs[k])]

\* name, verb, option and (for user data) bytes of an event
Summary(e) ==
  [event |-> e.event, commandCode |-> e.commandCode, optionCode |-> e.optionCode,
   data |-> IF IsData(e) THEN e.data ELSE <<>>]

Summaries(evs) == [k \in 1..Len(evs) |-> Summary(evs[k])]

NotCommand(e) == e.event # "command"

Delivered == pos = Len(wire)

IsPrefix(s, t) == Len(s) <= Len(t) /\ SubSeq(t, 1, Len(s)) = s

\* the result of feeding the whole wire as one chunk to a fresh session
OneChunk == parse(Constructed(tty), NoLast, wire, 0)

(***************************************************************************)
(* C1.  Chunking invariance: however the stream is cut into chunks, once   *)
(* it is delivered the user bytes and the sequence of option and 'command' *)
(* events are those of feeding the stream as one chunk.                    *)
(***************************************************************************)
ChunkingInvariance ==
  Delivered =>
    /\ DataBytes(events) = DataBytes(OneChunk.self.events)
    /\ FrameEvents(events) = FrameEvents(OneChunk.self.events)

(***************************************************************************)
(* C2.  No byte lost, none fabricated: for a stream of well-formed tokens  *)
(* delivered without residue, the user bytes delivered are the user spans  *)
(* of the stream in order, each IAC IAC pair giving one 0xFF and each      *)
(* frame giving nothing.                                                   *)
(***************************************************************************)
WellFormedTokens == (CoreTokens \ {BadNawsFrame})

UserDataOf(t) ==
  IF t \in UserTokens THEN t ELSE IF t = EscapeToken THEN <<IAC>> ELSE <<>>

\* the well-formed streams with the user data each of them carries
WellFormedStreams ==
  {<<Concat(ts), Concat([k \in 1..Len(ts) |-> UserDataOf(ts[k])])>> :
     ts \in SeqsUpTo(WellFormedTokens, MaxTokens)}

NoByteLostNoneFabricated ==
  \A ws \in WellFormedStreams :
    (wire = ws[1] /\ Delivered /\ last = NoLast) => DataBytes(events) = ws[2]

(***************************************************************************)
(* C3.  Wire-order delivery: a user byte is never delivered after the      *)
(* event of a frame that follows it on the wire, nor before the event of   *)
(* a frame that precedes it.                                               *)
(***************************************************************************)
WireOrder ==
  \A a \in 1..Len(events), b \in 1..Len(events) :
    (a < b) =>
      /\ (events[a].event = "command" /\ IsData(events[b])) =>
           \A k \in 1..Len(events[b].at) : events[b].at[k] > events[a].at[1]
      /\ (IsData(events[a]) /\ events[b].event = "command") =>
           \A k \in 1..Len(events[a].at) : events[a].at[k] < events[b].at[1]

(***************************************************************************)
(* C4.  Scenario S4: the chunk 48 49 FF and then the chunk                 *)
(* FB 01 20 57 4F 52 4C 44 give data "HI", the echo event of WILL ECHO,    *)
(* and data " WORLD" (six bytes), in this order.                           *)
(***************************************************************************)
EchoEvent == [event |-> "echo", commandCode |-> WILL, optionCode |-> ECHO, data |-> <<>>]

UserData(bytes) ==
  [event |-> "data", commandCode |-> Undefined, optionCode |-> Undefined, data |-> bytes]

ScenarioS4Holds ==
  [][(wire = ScenarioS4 /\ pos = 3 /\ last # NoLast /\ Len(events) = 1 /\ pos' = 11) =>
       /\ Summaries(events) = <<UserData(<<72, 73>>)>>
       /\ Summaries(SelectSeq(events', NotCommand)) =
            <<UserData(<<72, 73>>), EchoEvent, UserData(<<32, 87, 79, 82, 76, 68>>)>>]_vars

(***************************************************************************)
(* C5.  Scenario S5: the single chunk 41 FF FB 2A 42 gives data "A", the   *)
(* 'command' event of WILL 42, and data "B", in this order.                *)
(***************************************************************************)
UnknownEvent(cc, oc) ==
  [event |-> "command", commandCode |-> cc, optionCode |-> oc, data |-> <<>>]

ScenarioS5Holds ==
  [][(wire = ScenarioS5 /\ pos = 0 /\ pos' = 5) =>
       Summaries(events') = <<UserData(<<65>>), UnknownEvent(WILL, 42), UserData(<<66>>)>>]_vars

(***************************************************************************)
(* C6.  Inbound IAC escape: a stream whose only IAC bytes are one IAC IAC  *)
(* pair, followed by at least one more byte, gives exactly one 0xFF in the *)
(* delivered user data and no option or 'command' event.                   *)
(***************************************************************************)
OnePairFollowed(w) ==
  \E k \in 1..(Len(w) - 2) :
    /\ w[k] = IAC
    /\ w[k + 1] = IAC
    /\ \A j \in (1..Len(w)) \ {k, k + 1} : w[j] # IAC

CountIAC(bytes) == Cardinality({k \in 1..Len(bytes) : bytes[k] = IAC})

InboundEscape ==
  (Delivered /\ OnePairFollowed(wire)) =>
    /\ CountIAC(DataBytes(events)) = 1
    /\ SelectSeq(events, IsFrameEvent) = <<>>

(***************************************************************************)
(* C7.  Outbound IAC escape: write of a buffer (without line ends) hands   *)
(* the transport the buffer with every 0xFF doubled.                       *)
(***************************************************************************)
EscapeIAC(b) ==
  Concat([k \in 1..Len(b) |-> IF b[k] = IAC THEN <<IAC, IAC>> ELSE <<b[k]>>])

OutboundEscape ==
  [][\A b \in WriteBuffers :
       (Write(b) /\ \A k \in 1..Len(b) : b[k] \notin {10, 13}) =>
         out'[Len(out')] = TransportWrite(EscapeIAC(b))]_vars

(***************************************************************************)
(* C8.  Underflow is never an error: while a NAWS, TERMINAL_TYPE or        *)
(* NEW_ENVIRON subnegotiation is only partly delivered, however it is cut  *)
(* into chunks, no event of that frame and no 'error' is emitted; once its *)
(* last byte is delivered, its events are those of the frame decoded from  *)
(* one chunk, once.                                                        *)
(***************************************************************************)
SubnegFrames ==
  {F \in FrameTokens : F[2] = SB /\ F[3] \in {NAWS, TERMINAL_TYPE, NEW_ENVIRON}}

\* the events, other than user data, of the frame at wire offset o
EventsAt(o) ==
  LET AtO(e) == ~IsData(e) /\ e.at = <<o>>
      es == SelectSeq(events, AtO)
  IN [k \in 1..Len(es) |-> Payload(es[k])]

\* the events of frame F decoded from one chunk by a fresh session
DecodedAlone(F) ==
  LET es == parse(Constructed(tty), NoLast, F, 0).self.events
  IN [k \in 1..Len(es) |-> Payload(es[k])]

UnderflowNeverError ==
  \A p \in Contexts, F \in SubnegFrames :
    IsPrefix(p \o F, wire) =>
      /\ pos < Len(p) + Len(F) => EventsAt(Len(p)) = <<>>
      /\ pos >= Len(p) + Len(F) =>
           /\ EventsAt(Len(p)) = DecodedAlone(F)
           /\ EventsAt(Len(p)) # <<>>

\* a subnegotiation suspended by its decoder in the middle of the frame
UnderflowWitness ==
  \E F \in SubnegFrames :
    /\ IsPrefix(F, wire)
    /\ pos >= 3 /\ pos < Len(F)
    /\ last = [data |-> SubSeq(wire, 1, pos), i |-> 0, l |-> 0]
    /\ events = <<>>

(***************************************************************************)
(* C9.  Malformed subnegotiation: the read that delivers the last byte of  *)
(* a malformed NAWS, TERMINAL_TYPE or NEW_ENVIRON subnegotiation emits an  *)
(* 'error' for it and no option or 'command' event, processes nothing      *)
(* after it, keeps no residue and calls neither end nor destroy.           *)
(***************************************************************************)
MalformedSubnegotiation ==
  [][\A p \in Contexts, F \in MalformedTokens :
       (/\ IsPrefix(p \o F, wire)
        /\ pos < Len(p) + Len(F)
        /\ pos' >= Len(p) + Len(F)) =>
         /\ EventsAt(Len(p))' = <<Payload(ErrorEvent)>>
         /\ IsError(events'[Len(events')])
         /\ last' = NoLast
         /\ \A k \in 1..Len(out') : out'[k].op = "write"]_vars

(***************************************************************************)
(* C10.  NAWS state mirror.  The event of a decoded NAWS subnegotiation    *)
(* carries width 256*w_hi+w_lo and height 256*h_hi+h_lo.  As claimed, for  *)
(* every session columns and rows equal them (NawsMirrorEverySession); as  *)
(* amended, they do on a session created with the tty option, and are left *)
(* unset on a session created without it (NawsMirror).                     *)
(***************************************************************************)
IsResize(e) == e.event = "window size" /\ e.commandCode = SB

\* the last NAWS subnegotiation decoded
LastResize == LET ws == SelectSeq(events, IsResize) IN ws[Len(ws)]

Resized == SelectSeq(events, IsResize) # <<>>

EventMirrorsFrame(e) ==
  /\ e.width = 256 * e.data[4] + e.data[5]
  /\ e.height = 256 * e.data[6] + e.data[7]

NawsMirrorEverySession ==
  Resized =>
    /\ EventMirrorsFrame(LastResize)
    /\ columns = LastResize.width
    /\ rows = LastResize.height

NawsMirror ==
  Resized =>
    /\ EventMirrorsFrame(LastResize)
    /\ tty => columns = LastResize.width /\ rows = LastResize.height
    /\ ~tty => columns = Undefined /\ rows = Undefined

\* a tty session after the frame IAC SB 31 01 02 03 04 IAC SE
NawsMirrorWitness ==
  /\ Resized
  /\ tty
  /\ LastResize.data = <<IAC, SB, NAWS, 1, 2, 3, 4, IAC, SE>>
  /\ columns = 258
  /\ rows = 772

(***************************************************************************)
(* C11.  NAWS negotiation: the three bytes IAC <DO|DONT|WILL|WONT> 31 give *)
(* exactly one 'window size' event and one 'naws' event, both with the     *)
(* received verb as command, without width and height and with no data.    *)
(***************************************************************************)
NoPayload(e) ==
  /\ e.width = Undefined
  /\ e.height = Undefined
  /\ e.data = NoEvent.data

NawsNegotiation ==
  \A p \in Contexts, v \in Verbs :
    (IsPrefix(p \o <<IAC, v, NAWS>>, wire) /\ pos >= Len(p) + 3) =>
      LET es == SelectSeq(EventsAt(Len(p)), NotCommand)
      IN /\ Len(es) = 2
         /\ es[1].event = "window size"
         /\ es[2].event = "naws"
         /\ \A k \in 1..2 : es[k].commandCode = v /\ NoPayload(es[k])

(***************************************************************************)
(* C12.  Terminal-type solicitation: the session has written the six bytes *)
(* FF FA 18 01 FF F0 once for every IAC WILL 24 frame it has decoded, and  *)
(* decoding has written nothing else: no reply for IAC DO/DONT/WONT 24,    *)
(* for a TERMINAL_TYPE subnegotiation or for a frame of another option.    *)
(***************************************************************************)
IsSolicit(c) == c.op = "write" /\ c.bytes = <<255, 250, 24, 1, 255, 240>>

IsWillTerminalType(e) ==
  e.event = "command" /\ e.commandCode = WILL /\ e.optionCode = TERMINAL_TYPE

Solicits == SelectSeq(out, IsSolicit)

TerminalTypeSolicited ==
  /\ Len(Solicits) = Len(SelectSeq(events, IsWillTerminalType))
  /\ out = Constructed(tty).out \o Solicits

\* IAC WILL ECHO, IAC WILL 24, IAC WILL ECHO decoded: one solicitation
TerminalTypeSolicitedWitness ==
  /\ wire = <<IAC, WILL, ECHO, IAC, WILL, TERMINAL_TYPE, IAC, WILL, ECHO>>
  /\ Delivered
  /\ Len(SelectSeq(events, IsWillTerminalType)) = 1
  /\ Len(Solicits) = 1
  /\ Len(events) = 6

(***************************************************************************)
(* C13.  Terminal-type decode: once the frame IAC SB 24 0 <name> IAC SE    *)
(* is delivered, the session's terminal is the name in lower case, the one *)
(* 'terminal type' event of the frame carries that name and the bytes of   *)
(* the frame through IAC SE, and what follows the frame is read from the   *)
(* byte after SE.                                                          *)
(***************************************************************************)
\* the frames for "XT" and "XTERM" with the names "xt" and "xterm"
TerminalTypeNames ==
  {<<TerminalTypeFrame, <<120, 116>>>>,
   <<XtermFrame, <<120, 116, 101, 114, 109>>>>}

IsTerminalTypeEvent(e) == e.event = "terminal type"

TerminalTypeDecode ==
  \A p \in Contexts, fn \in TerminalTypeNames :
    LET F == fn[1]
        o == Len(p)
        tts == SelectSeq(EventsAt(o), IsTerminalTypeEvent)
    IN (IsPrefix(p \o F, wire) /\ pos >= o + Len(F)) =>
         /\ terminal = fn[2]
         /\ Len(tts) = 1
         /\ tts[1].commandCode = SB
         /\ tts[1].name = fn[2]
         /\ tts[1].data = F
         /\ (wire = p \o F \o <<IAC, WILL, ECHO>> /\ Delivered) =>
              /\ Len(EventsAt(o + Len(F))) = 2
              /\ EventsAt(o + Len(F))[1].event = "echo"
         /\ (wire = p \o F \o <<65>> /\ Delivered) =>
              /\ DataBytes(events) # <<>>
              /\ DataBytes(events)[Len(DataBytes(events))] = 65
              /\ DataOffsets(events)[Len(DataOffsets(events))] = o + Len(F)

\* "XTERM" after a user byte, decoded, with IAC WILL ECHO still to come
TerminalTypeDecodeWitness ==
  /\ wire = <<65>> \o XtermFrame \o <<IAC, WILL, ECHO>>
  /\ pos = 1 + Len(XtermFrame)
  /\ terminal = <<120, 116, 101, 114, 109>>
  /\ \E k \in 1..Len(events) :
       IsTerminalTypeEvent(events[k]) /\ events[k].name = terminal

(***************************************************************************)
(* C14.  NEW-ENVIRON decode: once the frame IAC SB 39 2 <kind> <name> 1    *)
(* <value> IAC SE is delivered, env[name] is the value and the one         *)
(* 'environment variables' event of the frame (and its 'new environ'       *)
(* alias) carries the name, the value and the kind, 'system' for kind      *)
(* byte 0 and 'user' for kind byte 3; for the name "TERM" the value stored *)
(* and emitted is in lower case and terminal equals it.                    *)
(***************************************************************************)
\* TERM=X sent as a system variable, A=B sent as a user variable
EnvironCases ==
  {[frame |-> <<255, 250, 39, 2, 0, 84, 69, 82, 77, 1, 88, 255, 240>>,
    name |-> <<84, 69, 82, 77>>, value |-> <<120>>, type |-> "system"],
   [frame |-> <<255, 250, 39, 2, 3, 65, 1, 66, 255, 240>>,
    name |-> <<65>>, value |-> <<66>>, type |-> "user"]}

IsEnvironEvent(e) == e.event = "environment variables"

IsNewEnvironEvent(e) == e.event = "new environ"

Carries(e, c) ==
  /\ e.commandCode = SB
  /\ e.name = c.name
  /\ e.value = c.value
  /\ e.type = c.type
  /\ e.data = c.frame

NewEnvironDecode ==
  \A p \in Contexts, c \in EnvironCases :
    LET evs == SelectSeq(EventsAt(Len(p)), IsEnvironEvent)
        nes == SelectSeq(EventsAt(Len(p)), IsNewEnvironEvent)
    IN (IsPrefix(p \o c.frame, wire) /\ pos >= Len(p) + Len(c.frame)) =>
         /\ DOMAIN env = {c.name}
         /\ env[c.name] = c.value
         /\ Len(evs) = 1 /\ Carries(evs[1], c)
         /\ Len(nes) = 1 /\ Carries(nes[1], c)
         /\ terminal = IF c.name = <<84, 69, 82, 77>> THEN c.value ELSE ansi

\* TERM=X decoded on a session: env.TERM and terminal are "x"
NewEnvironDecodeWitness ==
  /\ \E p \in Contexts :
       /\ IsPrefix(p \o <<255, 250, 39, 2, 0, 84, 69, 82, 77, 1, 88, 255, 240>>, wire)
       /\ pos >= Len(p) + 13
  /\ DOMAIN env = {<<84, 69, 82, 77>>}
  /\ env[<<84, 69, 82, 77>>] = <<120>>
  /\ terminal = <<120>>

(***************************************************************************)
(* C15.  In every reachable state, after any sequence of inbound chunks,   *)
(* env has no entry whose name is the empty string.                        *)
(***************************************************************************)
EnvNamesNonEmpty == \A n \in DOMAIN env : n # <<>>

\* a NEW_ENVIRON subnegotiation with an empty name and the value "B" was
\* delivered and rejected
EmptyNameRejected ==
  /\ IsPrefix(<<IAC, SB, NEW_ENVIRON, SUB_INFO, SUB_VARIABLE, SUB_VALUE, 66, IAC, SE>>, wire)
  /\ Delivered
  /\ \E k \in 1..Len(events) : IsError(events[k])
  /\ DOMAIN env = {}

(***************************************************************************)
(* C16.  Frame-head recognition: three bytes IAC, c, o with c a command    *)
(* code and o any byte are consumed as a frame: once they are delivered    *)
(* the application has received no user data and one 'command' event with  *)
(* command c and option o.                                                 *)
(***************************************************************************)
IsCommandOf(e, c, o) ==
  e.event = "command" /\ e.commandCode = c /\ e.optionCode = o

FrameHeadAnyOption ==
  (/\ Len(wire) = 3
   /\ wire[1] = IAC
   /\ wire[2] \in COMMAND_NAMES \ {IAC}
   /\ Delivered) =>
     /\ DataBytes(events) = <<>>
     /\ \E k \in 1..Len(events) : IsCommandOf(events[k], wire[2], wire[3])

(***************************************************************************)
(* C17.  Unknown-option framing: read from one chunk, a frame of an option *)
(* without a decoder gives one 'command' event that holds the bytes it     *)
(* consumed: three for a negotiation, the bytes through the first SE for a *)
(* subnegotiation whatever its payload (a zero byte included), three for a *)
(* subnegotiation with no SE in the chunk; no 'error' is emitted and the   *)
(* frame that follows is decoded.                                          *)
(***************************************************************************)
\* frames of option 42, each with the bytes it has to consume when no SE
\* follows it
UnknownFrames ==
  {<<IAC, WILL, CHARSET>>,
   <<IAC, SB, CHARSET, 1, IAC, SE>>,
   <<IAC, SB, CHARSET, 0, IAC, SE>>,
   <<IAC, SB, CHARSET>>}

UnknownOptionFraming ==
  [][\A F \in UnknownFrames, q \in Contexts :
       (wire = F \o q /\ pos = 0 /\ pos' = Len(wire)) =>
         /\ Len(EventsAt(0)') = 1
         /\ IsCommandOf(EventsAt(0)'[1], F[2], CHARSET)
         /\ EventsAt(0)'[1].data = F
         /\ \A k \in 1..Len(events') : ~IsError(events'[k])
         /\ (q = <<IAC, WILL, ECHO>>) =>
              /\ Len(EventsAt(Len(F))') = 2
              /\ EventsAt(Len(F))'[1].event = "echo"]_vars

(***************************************************************************)
(* C18.  Fixed 3-byte options: once a negotiation of ECHO, STATUS,         *)
(* LINEMODE, TRANSMIT_BINARY, AUTHENTICATION, TERMINAL_SPEED,              *)
(* REMOTE_FLOW_CONTROL (33), X_DISPLAY_LOCATION or SUPPRESS_GO_AHEAD is    *)
(* delivered, the frame has given exactly the option's canonical event and *)
(* then the 'command' event, both with the frame's three bytes.            *)
(***************************************************************************)
CanonicalEvent(o) ==
  CASE o = 1 -> "echo"
    [] o = 5 -> "status"
    [] o = 34 -> "linemode"
    [] o = 0 -> "transmit binary"
    [] o = 37 -> "authentication"
    [] o = 32 -> "terminal speed"
    [] o = 33 -> "remote flow control"
    [] o = 35 -> "x display location"
    [] o = 3 -> "suppress go ahead"

FixedOptionEvents ==
  \A p \in Contexts, t \in FixedTokens :
    LET es == EventsAt(Len(p))
    IN (IsPrefix(p \o t, wire) /\ pos >= Len(p) + 3) =>
         /\ Len(es) = 2
         /\ es[1].event = CanonicalEvent(t[3])
         /\ es[1].commandCode = t[2] /\ es[1].optionCode = t[3]
         /\ IsCommandOf(es[2], t[2], t[3])
         /\ es[1].data = t /\ es[2].data = t

(***************************************************************************)
(* C19.  Command senders: a call of the sender of a verb and an option     *)
(* adds to what the transport was given exactly one write of the three     *)
(* bytes IAC, verb code, option code, after everything written before, and *)
(* changes nothing else of the session; so n calls write n copies in call  *)
(* order.                                                                  *)
(***************************************************************************)
\* the option codes by name
OptionCodeOf(name) ==
  CASE name = "transmit_binary" -> 0
    [] name = "echo" -> 1
    [] name = "suppress_go_ahead" -> 3
    [] name = "terminal_type" -> 24
    [] name = "naws" -> 31
    [] name = "new_environ" -> 39

SenderWrites ==
  [][\A v \in {253, 254, 251, 252}, name \in SenderNames :
       Send(v, name) =>
         /\ out' = Append(out, [op |-> "write", bytes |-> <<255, v, OptionCodeOf(name)>>])
         /\ UNCHANGED <<wire, pos, last, events, columns, rows, terminal, env,
                        tty, convertLF, isTTY, isRaw>>]_vars

\* do.echo() called twice: FF FD 01 FF FD 01
SenderWritesWitness ==
  /\ nsent = 2
  /\ Len(out) >= 2
  /\ out[Len(out) - 1] = [op |-> "write", bytes |-> <<255, 253, 1>>]
  /\ out[Len(out)] = [op |-> "write", bytes |-> <<255, 253, 1>>]
  /\ Delivered

(***************************************************************************)
(* C20.  Sender aliases: for every verb the sender named window_size       *)
(* writes what the sender named naws writes, IAC verb 31, and the sender   *)
(* named environment_variables what new_environ writes, IAC verb 39.       *)
(***************************************************************************)
WrittenBy(commandCode, name) ==
  Append(out, TransportWrite(SenderBuffer(commandCode, OPTIONS(name))))

SenderAliases ==
  [][\A v \in Verbs :
       /\ Send(v, "window_size") =>
            /\ out' = WrittenBy(v, "naws")
            /\ out'[Len(out')].bytes = <<255, v, 31>>
       /\ Send(v, "environment_variables") =>
            /\ out' = WrittenBy(v, "new_environ")
            /\ out'[Len(out')].bytes = <<255, v, 39>>]_vars

\* will.window_size() and then dont.environment_variables()
SenderAliasesWitness ==
  /\ nsent = 2
  /\ Len(out) >= 2
  /\ out[Len(out) - 1].bytes = <<255, 251, 31>>
  /\ out[Len(out)].bytes = <<255, 254, 39>>

(***************************************************************************)
(* C21.  Raw-mode toggle.  On a writable session setRawMode(true) sets     *)
(* isRaw to true and writes nine bytes, the same on every call.  As        *)
(* claimed they are FF FB 01 FF FB 03 FF FD 03 (RawModeAsClaimed); as      *)
(* amended they are FF FD 03 FF FB 03 FF FB 01, DO SUPPRESS_GO_AHEAD, then *)
(* WILL SUPPRESS_GO_AHEAD, then WILL ECHO, on a session created with the   *)
(* tty option, the only one that has setRawMode (RawModeToggle).           *)
(***************************************************************************)
\* the bytes of the calls cs on the transport, in order
BytesOf(cs) == Concat([k \in 1..Len(cs) |-> cs[k].bytes])

AllWrites(cs) == \A k \in 1..Len(cs) : cs[k].op = "write"

RawModeAsClaimed ==
  [][(writable /\ SetRawMode(TRUE)) =>
       /\ IsPrefix(out, out')
       /\ AllWrites(SubSeq(out', Len(out) + 1, Len(out')))
       /\ BytesOf(SubSeq(out', Len(out) + 1, Len(out')))
            = <<255, 251, 1, 255, 251, 3, 255, 253, 3>>
       /\ isRaw' = <<TRUE>>]_vars

RawModeToggle ==
  [][(writable /\ SetRawMode(TRUE)) =>
       /\ tty
       /\ IsPrefix(out, out')
       /\ AllWrites(SubSeq(out', Len(out) + 1, Len(out')))
       /\ BytesOf(SubSeq(out', Len(out) + 1, Len(out')))
            = <<255, 253, 3, 255, 251, 3, 255, 251, 1>>
       /\ isRaw' = <<TRUE>>]_vars

\* setRawMode(true) called twice on a writable session
RawModeToggleWitness ==
  /\ nraw = 2
  /\ writable
  /\ isRaw = <<TRUE>>
  /\ Len(out) >= 6
  /\ BytesOf(SubSeq(out, Len(out) - 5, Len(out)))
       = <<255, 253, 3, 255, 251, 3, 255, 251, 1,
           255, 253, 3, 255, 251, 3, 255, 251, 1>>

(***************************************************************************)
(* C22.  setRawMode(m) on a transport that is not writable is a no-op: it  *)
(* writes nothing and leaves the state of the session, isRaw included,     *)
(* unchanged.                                                              *)
(***************************************************************************)
RawModeNoOp ==
  [][\A mode \in BOOLEAN :
       (~writable /\ SetRawMode(mode)) =>
         /\ out' = out
         /\ isRaw' = isRaw
         /\ UNCHANGED <<last, events, columns, rows, terminal, env, isTTY>>]_vars

(***************************************************************************)
(* C23.  Output LF conversion: with convertLF, write hands the transport   *)
(* the buffer with every 0x0A that does not follow a 0x0D replaced by      *)
(* 0x0D 0x0A and every other byte unchanged, each write on its own; with   *)
(* convertLF false it hands it the buffer unchanged.                       *)
(***************************************************************************)
RECURSIVE ConvertLF(_, _)
\* b with a CR put before every LF that does not follow a CR; prev is the
\* byte before b[1], 0 at the start of a write
ConvertLF(b, prev) ==
  IF b = <<>> THEN <<>>
  ELSE (IF b[1] = 10 /\ prev # 13 THEN <<13, 10>> ELSE <<b[1]>>)
         \o ConvertLF(Tail(b), b[1])

LFConversion ==
  [][\A b \in WriteBuffers :
       Write(b) =>
         out' = Append(out, [op |-> "write",
                             bytes |-> IF convertLF THEN ConvertLF(b, 0) ELSE b])]_vars

(***************************************************************************)
(* C24.  TTY open sequence: before the first inbound chunk a session       *)
(* created with the tty option has written exactly FF FD 00, FF FD 18,     *)
(* FF FD 1F, FF FD 27, in that order, and has isTTY true, isRaw false,     *)
(* columns 80 and rows 24; these four writes stay the first the transport  *)
(* was given.  A session created without tty has written nothing.          *)
(***************************************************************************)
OpenSequence ==
  <<[op |-> "write", bytes |-> <<255, 253, 0>>],
    [op |-> "write", bytes |-> <<255, 253, 24>>],
    [op |-> "write", bytes |-> <<255, 253, 31>>],
    [op |-> "write", bytes |-> <<255, 253, 39>>]>>

TtyOpen ==
  /\ tty => IsPrefix(OpenSequence, out) /\ isTTY = <<TRUE>>
  /\ (tty /\ pos = 0) =>
       /\ out = OpenSequence
       /\ isRaw = <<FALSE>>
       /\ columns = 80
       /\ rows = 24
  /\ (~tty /\ pos = 0) => out = <<>>

\* a tty session that has decoded IAC WILL TERMINAL_TYPE after open
TtyOpenWitness ==
  /\ tty
  /\ wire = <<IAC, WILL, TERMINAL_TYPE>>
  /\ Delivered
  /\ Len(out) = 5
  /\ SubSeq(out, 1, 4) = OpenSequence

(***************************************************************************)
(* C25.  Echo round trip: on a session whose application writes every      *)
(* 'data' payload back, a chunk of a stream without IAC and without line   *)
(* feed gives exactly one 'data' event equal to the chunk, and the         *)
(* transport is handed exactly the bytes of the chunk.                     *)
(***************************************************************************)
Plain(s) == \A k \in 1..Len(s) : s[k] \notin {255, 10}

EchoRoundTrip ==
  [][\A n \in 1..(Len(wire) - pos) :
       (Plain(wire) /\ EchoData(n)) =>
         LET chunk == SubSeq(wire, pos + 1, pos + n)
         IN /\ Len(events') = Len(events) + 1
            /\ IsData(events'[Len(events')])
            /\ events'[Len(events')].data = chunk
            /\ IsPrefix(out, out')
            /\ AllWrites(SubSeq(out', Len(out) + 1, Len(out')))
            /\ BytesOf(SubSeq(out', Len(out) + 1, Len(out'))) = chunk]_vars

(***************************************************************************)
(* C26.  A byte 0xFF of a 'data' payload is the one byte produced from an  *)
(* inbound IAC IAC pair: it was taken from a wire offset next to another   *)
(* IAC.  The IAC that introduces a command is never delivered as user      *)
(* data.                                                                   *)
(***************************************************************************)
\* whether the wire byte at offset o is an IAC with an IAC next to it
InIACPair(o) ==
  /\ wire[o + 1] = IAC
  /\ \/ o >= 1 /\ wire[o] = IAC
     \/ o + 2 <= Len(wire) /\ wire[o + 2] = IAC

NoIACInData ==
  \A k \in 1..Len(events) :
    IsData(events[k]) =>
      \A j \in 1..Len(events[k].data) :
        events[k].data[j] = 255 => InIACPair(events[k].at[j])

(***************************************************************************)
(* C27.  Residue invariant: between reads the residue kept for the next    *)
(* read is empty or begins with the IAC of a frame that is not decoded     *)
(* yet, and holds no byte that was already delivered as user data or       *)
(* consumed by a decoded frame.                                            *)
(***************************************************************************)
\* the wire offsets of the bytes this._last.data holds
ResidueOffsets == (pos - Len(last.data))..(pos - 1)

\* the wire offsets of the bytes consumed by the decoded frames
ConsumedOffsets ==
  UNION {e.at[1]..(e.at[1] + Len(e.data) - 1) :
           e \in {events[k] : k \in {j \in 1..Len(events) : events[j].event = "command"}}}

DeliveredOffsets == {DataOffsets(events)[k] : k \in 1..Len(DataOffsets(events))}

ResidueInvariant ==
  last # NoLast =>
    /\ last.data # <<>>
    /\ last.data[1] = IAC
    /\ ResidueOffsets \cap ConsumedOffsets = {}
    /\ ResidueOffsets \cap DeliveredOffsets = {}

(***************************************************************************)
(* C28.  Transport end with a suspended frame: when the transport signals  *)
(* end or close while the session holds a residue, the session emits       *)
(* 'end', respectively 'close', and nothing else: no 'data', option,       *)
(* 'command' or 'error' event for the frame it holds in part; 'close'      *)
(* never precedes 'end'.                                                   *)
(***************************************************************************)
EndWithResidue ==
  [][(last # NoLast /\ (InputEnd \/ InputClose)) =>
       /\ Len(events') = Len(events) + 1
       /\ SubSeq(events', 1, Len(events)) = events
       /\ events'[Len(events')] =
            [NoEvent EXCEPT !.event = IF InputEnd THEN "end" ELSE "close"]
       /\ (events'[Len(events')].event = "end") => ~InputClosed
       /\ out' = out]_vars

\* the transport has ended and closed while the first bytes of a NAWS
\* subnegotiation were held
EndWithResidueWitness ==
  /\ wire = <<IAC, SB, NAWS, 0, 80>>
  /\ last # NoLast
  /\ Len(events) = 2
  /\ events[1].event = "end"
  /\ events[2].event = "close"

(***************************************************************************)
(* C29.  Pre-frame span: when a chunk holds user bytes and then a frame,   *)
(* the pass emits the user bytes in a 'data' event, and emits it before    *)
(* the events of the frame.                                                *)
(***************************************************************************)
\* frames that are decoded from a chunk holding them whole
WholeFrames ==
  {<<IAC, WILL, ECHO>>, <<IAC, WILL, CHARSET>>, NawsFrame, TerminalTypeFrame}

PreFrameSpan ==
  [][\A u \in UserTokens, F \in WholeFrames :
       (wire = u \o F /\ pos = 0 /\ pos' = Len(wire)) =>
         /\ Len(events') >= 2
         /\ IsData(events'[1])
         /\ events'[1].data = u
         /\ \A k \in 2..Len(events') : events'[k].at = <<Len(u)>>
         /\ events'[Len(events')].event = "command"]_vars

(***************************************************************************)
(* C30.  Post-frame tail: when a chunk holds a frame and then user bytes,  *)
(* the pass ends with a 'data' event that holds each of these bytes once,  *)
(* whether the tail is one byte long or longer.                            *)
(***************************************************************************)
PostFrameTail ==
  [][\A u \in UserTokens, F \in WholeFrames :
       (wire = F \o u /\ pos = 0 /\ pos' = Len(wire)) =>
         /\ IsData(events'[Len(events')])
         /\ DataBytes(events') = u
         /\ DataOffsets(events') = [k \in 1..Len(u) |-> Len(F) + k - 1]
         /\ events'[Len(events') - 1].event = "command"]_vars

(***************************************************************************)
(* C31.  One data event per pass: a pass over a whole buffer of user spans *)
(* and frames that returns without residue emits at most one 'data' event, *)
(* and the payload of that event is every byte of every span, in order:    *)
(* the spans before, between and after the frames of the pass.             *)
(***************************************************************************)
\* the user spans and the frames a pass is made of
SpanTokens == UserTokens \cup WholeFrames

SpanDataOf(t) == IF t \in UserTokens THEN t ELSE <<>>

\* the buffers of one pass, each with the user data of its spans: the
\* sequences of spans and frames, and a span between two contexts
SpanStreams ==
  {<<Concat(ts), Concat([k \in 1..Len(ts) |-> SpanDataOf(ts[k])])>> :
     ts \in SeqsUpTo(SpanTokens, MaxTokens)}
    \cup {<<p \o u \o q, SpanDataOf(p) \o u \o SpanDataOf(q)>> :
            p \in {<<65>>, <<IAC, WILL, ECHO>>}, u \in UserTokens,
            q \in {<<65>>, <<IAC, WILL, ECHO>>}}

\* the events appended by the step
NewEvents == SubSeq(events', Len(events) + 1, Len(events'))

OneDataEventPerPass ==
  [][\A ws \in SpanStreams :
       (wire = ws[1] /\ pos = 0 /\ pos' = Len(wire) /\ last' = NoLast) =>
         /\ Len(SelectSeq(NewEvents, IsData)) <= 1
         /\ DataBytes(NewEvents) = ws[2]]_vars

\* the part of C31 the code keeps: never more than one 'data' event in a
\* pass that returns without residue
AtMostOneDataEvent ==
  [][(last' = NoLast) => Len(SelectSeq(NewEvents, IsData)) <= 1]_vars

(***************************************************************************)
(* C32.  Stray IAC at the end of the buffer: a chunk that ends with an     *)
(* IAC followed by fewer than two bytes gives one 'data' event with the    *)
(* user bytes before the IAC (none when there are none) and nothing else,  *)
(* the residue is the IAC with the byte after it, cursors at zero, and the *)
(* next chunk is parsed as the continuation of the residue: the frame the  *)
(* two chunks make together is decoded at the offset of the IAC.           *)
(***************************************************************************)
\* the user bytes ahead of the stray IAC
StraySpans == {<<>>, <<65>>, <<66, 67>>, <<65, 65>>}

StrayIAC ==
  [][\A u \in StraySpans, k \in 1..2 :
       LET F == <<IAC, WILL, ECHO>>
           cut == Len(u) + k
       IN (wire = u \o F) =>
            /\ (pos = 0 /\ pos' = cut) =>
                 /\ events' = IF u = <<>> THEN <<>>
                              ELSE <<DataEvent(u, Offsets(0, 0, Len(u)))>>
                 /\ last' = [data |-> SubSeq(F, 1, k), i |-> 0, l |-> 0]
            /\ (pos = cut /\ last = [data |-> SubSeq(F, 1, k), i |-> 0, l |-> 0]
                  /\ pos' = Len(wire)) =>
                 /\ last' = NoLast
                 /\ SubSeq(events', 1, Len(events)) = events
                 /\ Len(NewEvents) = 2
                 /\ NewEvents[1] = Named(NewEvents[2], "echo")
                 /\ NewEvents[2].event = "command"
                 /\ NewEvents[2].data = F
                 /\ NewEvents[2].at = <<Len(u)>>]_vars

\* a session resumed from the residue of a stray IAC has decoded the frame
StrayIACWitness ==
  /\ wire = <<66, 67, IAC, WILL, ECHO>>
  /\ pos = Len(wire)
  /\ Len(events) = 3
  /\ events[1] = DataEvent(<<66, 67>>, <<0, 1>>)
  /\ events[3].at = <<2>>

(***************************************************************************)
(* SpecFrame: the session state under every operation.  The peer sends one *)
(* frame, cut into chunks in any way, and the application writes, calls a  *)
(* sender and switches the raw mode at any moment.                         *)
(***************************************************************************)
NawsFrame12 == <<IAC, SB, NAWS, 1, 2, 3, 4, IAC, SE>>

EnvironTermFrame ==
  <<IAC, SB, NEW_ENVIRON, SUB_INFO, SUB_VARIABLE, 84, 69, 82, 77, SUB_VALUE, 88, IAC, SE>>

EnvironUserFrame ==
  <<IAC, SB, NEW_ENVIRON, SUB_INFO, SUB_USER_VARIABLE, 65, SUB_VALUE, 66, IAC, SE>>

FrameStreams ==
  {NawsFrame12, TerminalTypeFrame, EnvironTermFrame, EnvironUserFrame,
   <<IAC, DO, NAWS>>, <<IAC, WILL, NEW_ENVIRON>>, <<IAC, WILL, CHARSET>>,
   <<IAC, SB, CHARSET, 1, IAC, SE>>}

InitFrame == InitWith(FrameStreams, {TRUE})

NextFrame ==
  \/ \E n \in 1..(Len(wire) - pos) : Data(n)
  \/ Write(<<10>>)
  \/ Send(DO, "naws")
  \/ SetRawMode(TRUE)

SpecFrame == InitFrame /\ [][NextFrame]_vars

(***************************************************************************)
(* C33.  State frame: columns and rows change only in a parse step that    *)
(* decodes a NAWS subnegotiation and env only in one that decodes a        *)
(* NEW_ENVIRON subnegotiation; terminal changes only in a parse step that  *)
(* decodes a TERMINAL_TYPE subnegotiation or a NEW_ENVIRON subnegotiation  *)
(* of the variable TERM.  write, the senders, setRawMode, negotiations of  *)
(* three bytes, unknown options and passes that wait for more data leave   *)
(* the four of them as they are.                                           *)
(***************************************************************************)
\* the step decodes a subnegotiation of the option
DecodesSB(optionCode) ==
  \E k \in 1..Len(NewEvents) :
    /\ NewEvents[k].event = "command"
    /\ NewEvents[k].commandCode = SB
    /\ NewEvents[k].optionCode = optionCode

\* the step decodes a NEW_ENVIRON subnegotiation of the variable TERM
DecodesTerm ==
  \E k \in 1..Len(NewEvents) :
    /\ NewEvents[k].event = "command"
    /\ NewEvents[k].commandCode = SB
    /\ NewEvents[k].optionCode = NEW_ENVIRON
    /\ NewEvents[k].name = TERM

\* the claim as stated: each field has its own option
StateFrameRespectively ==
  [][/\ (columns' # columns \/ rows' # rows) => (pos' > pos /\ DecodesSB(NAWS))
     /\ (terminal' # terminal) => (pos' > pos /\ DecodesSB(TERMINAL_TYPE))
     /\ (env' # env) => (pos' > pos /\ DecodesSB(NEW_ENVIRON))]_vars

StateFrame ==
  [][/\ (columns' # columns \/ rows' # rows) => (pos' > pos /\ DecodesSB(NAWS))
     /\ (terminal' # terminal) =>
          (pos' > pos /\ (DecodesSB(TERMINAL_TYPE) \/ DecodesTerm))
     /\ (env' # env) => (pos' > pos /\ DecodesSB(NEW_ENVIRON))
     /\ (pos' = pos) => UNCHANGED <<columns, rows, terminal, env>>]_vars

\* the terminal name taken from TERM on a session whose application has
\* written, called a sender and switched the raw mode
StateFrameWitness ==
  /\ wire = EnvironTermFrame
  /\ terminal = <<120>>
  /\ env # <<>>
  /\ nwritten > 0 /\ nsent > 0 /\ nraw > 0

(***************************************************************************)
(* C34.  State unchanged on error: a pass that ends with the 'error' of a  *)
(* failed assertion leaves no residue and leaves env, terminal, columns    *)
(* and rows as they were before the failing frame: untouched when the      *)
(* failing frame is the first of the pass, with the effect of the frames   *)
(* decoded ahead of it otherwise; the next chunk is then parsed from its   *)
(* first byte.                                                             *)
(***************************************************************************)
\* the step ends with the 'error' of a decoder
EndsWithError == NewEvents # <<>> /\ IsError(NewEvents[Len(NewEvents)])

\* the events of the chunk q parsed on its own at wire offset o
ParsedAlone(q, o) ==
  IF q = <<65>>
  THEN <<DataEvent(q, <<o>>)>>
  ELSE LET c == [NoEvent EXCEPT !.event = "command", !.commandCode = WILL,
                                !.optionCode = ECHO, !.data = q, !.at = <<o>>]
       IN <<Named(c, "echo"), c>>

StateUnchangedOnError ==
  [][/\ EndsWithError =>
          /\ last' = NoLast
          /\ (Len(NewEvents) = 1) => UNCHANGED <<columns, rows, terminal, env>>
          /\ (wire = TerminalTypeFrame \o BadNawsFrame /\ pos = 0) =>
               /\ terminal' = <<120, 116>>
               /\ UNCHANGED <<columns, rows, env>>
     /\ \A q \in {<<65>>, <<IAC, WILL, ECHO>>} :
          (wire = BadNawsFrame \o q /\ pos = Len(BadNawsFrame) /\ pos' = Len(wire)
             /\ events # <<>> /\ IsError(events[Len(events)])) =>
            /\ last' = NoLast
            /\ NewEvents = ParsedAlone(q, pos)]_vars

\* a failed assertion behind a decoded frame: the terminal name of the frame
\* is kept and the session holds no residue
StateUnchangedOnErrorWitness ==
  /\ wire = TerminalTypeFrame \o BadNawsFrame
  /\ pos = Len(wire)
  /\ events # <<>>
  /\ IsError(events[Len(events)])
  /\ terminal = <<120, 116>>
  /\ last = NoLast

(***************************************************************************)
(* C35.  Saved-cursor invariant: whenever a residue is held,               *)
(* 0 <= l <= i < length(data) and data[i] is IAC; the residue of a stray   *)
(* IAC (an IAC with at most one byte after it) has i = 0 and l = 0.        *)
(***************************************************************************)
SavedCursor ==
  last # NoLast =>
    /\ 0 <= last.l
    /\ last.l <= last.i
    /\ last.i < Len(last.data)
    /\ At(last.data, last.i) = IAC
    /\ (Len(last.data) - last.i < 3) => (last.i = 0 /\ last.l = 0)

\* a residue whose cursors are not at the start: the first bytes of a NAWS
\* subnegotiation behind a decoded frame
SavedCursorWitness ==
  /\ last # NoLast
  /\ last.i = 3
  /\ last.l = 3
  /\ Len(last.data) > 4
  /\ At(last.data, 4) = SB

(***************************************************************************)
(* C36.  Termination: every pass of parse returns, because the cursor      *)
(* moves at least three bytes past each frame it decodes and one byte      *)
(* otherwise: every 'command' event holds at least three bytes, the frames *)
(* decoded begin at increasing wire offsets, each behind the bytes of the  *)
(* one before, and no byte a frame consumed is read again as user data.    *)
(***************************************************************************)
\* the 'command' events, in the order of emission
Commands == SelectSeq(events, LAMBDA e : e.event = "command")

ParseTerminates ==
  /\ \A k \in 1..Len(Commands) :
       /\ Len(Commands[k].data) >= 3
       /\ (k > 1) =>
            Commands[k].at[1] >= Commands[k - 1].at[1] + Len(Commands[k - 1].data)
  /\ ConsumedOffsets \cap DeliveredOffsets = {}

\* a pass has run over a residue and decoded two frames behind each other
ParseTerminatesWitness ==
  /\ pos = Len(wire)
  /\ Len(Commands) = 2
  /\ Commands[1].commandCode = SB
  /\ Commands[2].at[1] = Commands[1].at[1] + Len(Commands[1].data)

====
